---------------------------- MODULE Spec2Model ----------------------------
(***************************************************************************)
(* cdn-payroll: the payroll-deduction formulas (basic personal amount,     *)
(* CPP/EI contributions, federal and provincial tax, per-period tax).      *)
(*                                                                         *)
(* Every formula is a pure function.  The state machine is a caller that   *)
(* invokes one formula with arguments drawn from bounded sets (pc goes     *)
(* "idle" -> "returned") and then drops the result (Return).               *)
(*                                                                         *)
(* f64 values are modelled as exact rationals <<n, d>> in dollars, d > 0,  *)
(* in lowest terms, extended with the IEEE special values                  *)
(*   <<1, 0>> = +Infinity, <<-1, 0>> = -Infinity, <<0, 0>> = NaN.          *)
(* Binary rounding error and the sign of zero are not modelled: with the   *)
(* non-negative arguments drawn here no operation yields -0.0.             *)
(***************************************************************************)
EXTENDS Integers, Sequences, FiniteSets, TLC

VARIABLES pc, op, args, res

vars == <<pc, op, args, res>>

---------------------------------------------------------------------------
(* Bounds of the model. *)

\* pay periods in the year range over 1..MaxP (and 0, -1 as invalid counts)
MaxP == 3
\* money grids have MaxSteps + 1 points
MaxSteps == 4

---------------------------------------------------------------------------
(* f64 arithmetic on exact rationals. *)

Abs(i) == IF i < 0 THEN -i ELSE i

Sgn(i) == IF i < 0 THEN -1 ELSE IF i > 0 THEN 1 ELSE 0

RECURSIVE GCD(_, _)
GCD(a, b) == IF b = 0 THEN a ELSE GCD(b, a % b)

\* the rational n/d (d # 0) in lowest terms with a positive denominator
Q(n, d) ==
    LET g == GCD(Abs(n), Abs(d))
    IN  <<Sgn(d) * (n \div g), Abs(d) \div g>>

NaN == <<0, 0>>
PosInf == <<1, 0>>
NegInf == <<-1, 0>>

IsNaN(x) == x = NaN
IsFinite(x) == x[2] # 0
IsZero(x) == x[2] # 0 /\ x[1] = 0

\* `i as f64`
FromInt(i) == <<i, 1>>

FNeg(x) == <<-x[1], x[2]>>

FAdd(x, y) ==
    IF IsNaN(x) \/ IsNaN(y) THEN NaN
    ELSE IF ~IsFinite(x) THEN (IF ~IsFinite(y) /\ y # x THEN NaN ELSE x)
    ELSE IF ~IsFinite(y) THEN y
    ELSE LET g == GCD(x[2], y[2])
         IN  Q(x[1] * (y[2] \div g) + y[1] * (x[2] \div g), x[2] * (y[2] \div g))

FSub(x, y) == FAdd(x, FNeg(y))

FMul(x, y) ==
    IF IsNaN(x) \/ IsNaN(y) THEN NaN
    ELSE IF ~IsFinite(x) \/ ~IsFinite(y)
         THEN (IF IsZero(x) \/ IsZero(y) THEN NaN ELSE <<Sgn(x[1]) * Sgn(y[1]), 0>>)
    ELSE LET g1 == GCD(Abs(x[1]), y[2])
             g2 == GCD(Abs(y[1]), x[2])
         IN  Q((x[1] \div g1) * (y[1] \div g2), (x[2] \div g2) * (y[2] \div g1))

FDiv(x, y) ==
    IF IsNaN(x) \/ IsNaN(y) THEN NaN
    ELSE IF IsZero(y) THEN (IF IsZero(x) THEN NaN ELSE <<Sgn(x[1]), 0>>)
    ELSE IF ~IsFinite(y) THEN (IF ~IsFinite(x) THEN NaN ELSE <<0, 1>>)
    ELSE IF ~IsFinite(x) THEN <<Sgn(x[1]) * Sgn(y[1]), 0>>
    ELSE FMul(x, <<Sgn(y[1]) * y[2], Abs(y[1])>>)

FLt(x, y) == ~IsNaN(x) /\ ~IsNaN(y) /\ x # y /\ FSub(x, y)[1] < 0
FLe(x, y) == ~IsNaN(x) /\ ~IsNaN(y) /\ (x = y \/ FSub(x, y)[1] < 0)
FGt(x, y) == FLt(y, x)
FGe(x, y) == FLe(y, x)
FEq(x, y) == ~IsNaN(x) /\ x = y

\* f64::is_sign_negative (NaN never reaches it with the arguments drawn here)
IsSignNegative(x) == x[1] < 0

Zero == <<0, 1>>

\* i64 `/`: truncates toward zero; the caller guards b # 0
TruncDiv(a, b) == Sgn(a) * Sgn(b) * (Abs(a) \div Abs(b))

\* the integer nearest to n/d (d > 0), a tie going away from zero
RoundHalfAway(n, d) ==
    LET q == Abs(n) \div d
        r == Abs(n) % d
    IN  Sgn(n) * (IF 2 * r >= d THEN q + 1 ELSE q)

\* utils::round: to the nearest cent, half away from zero; Infinity and NaN
\* pass through
round(x) ==
    IF ~IsFinite(x) THEN x
    ELSE LET g == GCD(100, x[2])
         IN  Q(RoundHalfAway(x[1] * (100 \div g), x[2] \div g), 100)

\* floor and remainder of a * n / d for a, n >= 0 and d > 0, by doubling, so
\* that no intermediate value leaves the machine range
RECURSIVE MulDivMod(_, _, _)
MulDivMod(a, n, d) ==
    IF n = 0 THEN <<0, 0>>
    ELSE LET h == MulDivMod(a, n \div 2, d)
             q2 == 2 * h[1] + ((2 * h[2]) \div d)
             r2 == (2 * h[2]) % d
         IN  IF n % 2 = 0 THEN <<q2, r2>>
             ELSE <<q2 + (a \div d) + ((r2 + (a % d)) \div d), (r2 + (a % d)) % d>>

---------------------------------------------------------------------------
(* year::v2025 constants, in dollars. *)

INCOME_THRESHOLD_4 == 177882
INCOME_THRESHOLD_5 == 253414
MINIMUM_BASIC_AMT == 16129
MAXIMUM_BASIC_AMT == 14538
CPP_MAX_CONTRIBUTIONS == Q(403410, 100)
EI_MAX_CONTRIBUTIONS == Q(107748, 100)

---------------------------------------------------------------------------
(* basic_personal_income.rs *)

\* a whole number of cents as [whole |-> dollars, cents |-> 0..99]: the
\* band value of BPAF is too large for a rational over machine integers
Wide(dollars, cents) == [whole |-> dollars, cents |-> cents]

WideLe(x, y) == x.whole < y.whole \/ (x.whole = y.whole /\ x.cents <= y.cents)

\* NI in whole cents (the incomes drawn have at most two decimals)
Cents(x) == x[1] * (100 \div x[2])

\* line 32, rounded to the cent as line 42 does:
\*   MINIMUM_BASIC_AMT - (NI * -INCOME_THRESHOLD_4) * (1591.0 / 75532.0)
\* NI * -T4 is negative, so the value is MIN + NI * T4 * 1591 / 75532
BPAF_band(NI) ==
    LET m == MulDivMod(Cents(NI), INCOME_THRESHOLD_4 * 1591, 75532 * 100)
        c == (2 * (m[2] * 100) + 75532 * 100) \div (2 * 75532 * 100)
    IN  Wide(MINIMUM_BASIC_AMT + m[1] + (c \div 100), c % 100)

\* the branches of lines 28-36; Wide(0, 0) is the initial 0.0 left in place
BPAF_branches(NI) ==
    IF FLe(NI, FromInt(INCOME_THRESHOLD_4)) THEN Wide(MINIMUM_BASIC_AMT, 0)
    ELSE IF FLt(FromInt(INCOME_THRESHOLD_4), NI) /\ FLt(NI, FromInt(INCOME_THRESHOLD_5))
        THEN BPAF_band(NI)
    ELSE IF FGt(NI, FromInt(INCOME_THRESHOLD_5)) THEN Wide(MAXIMUM_BASIC_AMT, 0)
    ELSE Wide(0, 0)

\* mutant: the two flat branches exchanged
BPAF_swapped(A_, HD) ==
    LET branch == BPAF_branches(FAdd(A_, HD))
    IN  IF branch = Wide(0, 0) THEN [kind |-> "Err"]
        ELSE IF branch = Wide(MINIMUM_BASIC_AMT, 0)
            THEN [kind |-> "Ok", v |-> Wide(MAXIMUM_BASIC_AMT, 0)]
        ELSE IF branch = Wide(MAXIMUM_BASIC_AMT, 0)
            THEN [kind |-> "Ok", v |-> Wide(MINIMUM_BASIC_AMT, 0)]
        ELSE [kind |-> "Ok", v |-> branch]

\* mutant: the last branch made inclusive (NI >= INCOME_THRESHOLD_5)
BPAF_inclusive(A_, HD) ==
    LET branch == BPAF_branches(FAdd(A_, HD))
    IN  IF branch = Wide(0, 0) THEN [kind |-> "Ok", v |-> Wide(MAXIMUM_BASIC_AMT, 0)]
        ELSE [kind |-> "Ok", v |-> branch]

\* Err(0.0) when no branch assigned a value, else Ok(round(BPAF)); the flat
\* values are whole dollars and BPAF_band is already rounded
BPAF(A_, HD) ==
    LET branch == BPAF_branches(FAdd(A_, HD))
    IN  IF branch = Wide(0, 0) THEN [kind |-> "Err"]
        ELSE [kind |-> "Ok", v |-> branch]

\* a = P * (I - F - F2 - F5A - U1) - HD - F1
A_raw(P, I, F, F2, F5A_, U1, HD, F1_) ==
    FSub(FSub(FMul(FromInt(P), FSub(FSub(FSub(FSub(I, F), F2), F5A_), U1)), HD), F1_)

\* mutant: the income clamped at zero as A_grad does
A_clamped(P, I, F, F2, F5A_, U1, HD, F1_, T_, L) ==
    LET a == A_raw(P, I, F, F2, F5A_, U1, HD, F1_)
    IN  IF IsSignNegative(a) THEN <<Zero, L>> ELSE <<round(a), T_>>

A(P, I, F, F2, F5A_, U1, HD, F1_, T_, L) ==
    LET a == A_raw(P, I, F, F2, F5A_, U1, HD, F1_)
    IN  <<round(a), IF IsSignNegative(a) THEN L ELSE T_>>

\* a = (S1 * (I - F - F2 - F5A - U1)) + (B1 - F4 - F5B) - HD - F1
A_grad_raw(S1_, I, F, F1_, F2, F4, F5A_, F5B, U1, B1, HD) ==
    FSub(FSub(FAdd(FMul(S1_, FSub(FSub(FSub(FSub(I, F), F2), F5A_), U1)),
                   FSub(FSub(B1, F4), F5B)), HD), F1_)

A_grad(S1_, I, F, F1_, F2, F4, F5A_, F5B, U1, B1, HD) ==
    LET a == A_grad_raw(S1_, I, F, F1_, F2, F4, F5A_, F5B, U1, B1, HD)
    IN  IF IsSignNegative(a) THEN Zero ELSE a

\* (total_pay_periods / current_pay_period) as f64: i64 division, which
\* panics on a zero divisor
S1(total_pay_periods, current_pay_period) ==
    IF current_pay_period = 0 THEN [kind |-> "panic"]
    ELSE [kind |-> "f64", v |-> FromInt(TruncDiv(total_pay_periods, current_pay_period))]

---------------------------------------------------------------------------
(* income_tax.rs *)

T(T1_, T2_, P, L) == round(FAdd(FDiv(FAdd(T1_, T2_), FromInt(P)), L))

\* t = ((T1_grad + T2 - M1) / S1) - M
T_grad_raw(T1_grad_, T2_, M1, S1_, M) ==
    FSub(FDiv(FSub(FAdd(T1_grad_, T2_), M1), S1_), M)

\* mutant: a negative t saturates to zero instead of returning L
T_grad_saturating(T1_grad_, T2_, M1, S1_, M, L) ==
    LET t == T_grad_raw(T1_grad_, T2_, M1, S1_, M)
    IN  IF IsSignNegative(t) THEN Zero ELSE round(FAdd(t, L))

\* mutant: L left out of the sum
T_grad_without_L(T1_grad_, T2_, M1, S1_, M, L) ==
    LET t == T_grad_raw(T1_grad_, T2_, M1, S1_, M)
    IN  IF IsSignNegative(t) THEN L ELSE round(t)

T_grad(T1_grad_, T2_, M1, S1_, M, L) ==
    LET t == T_grad_raw(T1_grad_, T2_, M1, S1_, M)
    IN  IF IsSignNegative(t) THEN L ELSE round(FAdd(t, L))

---------------------------------------------------------------------------
(* other_deductions.rs *)

\* c1 = 4034.1 * (PM/12) as f64 - D, PM/12 being i64 division
C_c1(PM, D) == FSub(FMul(Q(40341, 10), FromInt(TruncDiv(PM, 12))), D)

\* c2 = 0.0595 * (PI - (3500.0 / P as f64))
C_c2(PI, P) == FMul(Q(595, 10000), FSub(PI, FDiv(FromInt(3500), FromInt(P))))

C(PM, D, PI, P) ==
    LET c1 == C_c1(PM, D)
        c2 == C_c2(PI, P)
    IN  IF FLt(c1, c2) THEN round(c2) ELSE round(c1)

C2(PM, D2, PI_YTD, PI, W_) ==
    LET c21 == FSub(FMul(FromInt(396), FromInt(TruncDiv(PM, 12))), D2)
        c22 == FMul(FSub(FAdd(PI_YTD, PI), W_), Q(4, 100))
        c2 == IF FLt(c21, c22) THEN c21 ELSE c22
    IN  round(IF IsSignNegative(c2) THEN Zero ELSE c2)

EI(D1, IE) ==
    LET ei1 == FSub(EI_MAX_CONTRIBUTIONS, D1)
        ei2 == FMul(Q(164, 10000), IE)
    IN  IF FLt(ei1, ei2) THEN round(ei1) ELSE round(ei2)

---------------------------------------------------------------------------
(* federal_income_tax.rs *)

F1(P, PR, F1_total) == round(FDiv(FMul(FromInt(P), F1_total), FromInt(PR)))

F5A(F5, PI, B) == round(FMul(F5, FDiv(FSub(PI, B), PI)))

K3(P, PR, K3_other) == FDiv(FMul(FromInt(P), K3_other), FromInt(PR))

\* result = (R * A) - K - K1 - K2 - K3 - K4
T3_raw(R, A_, K, K1_, K2_, K3_, K4_) ==
    FSub(FSub(FSub(FSub(FSub(FMul(R, A_), K), K1_), K2_), K3_), K4_)

\* mutant: the negative result is returned, rounded, instead of 0.0
T3_unclamped(R, A_, K, K1_, K2_, K3_, K4_) ==
    round(T3_raw(R, A_, K, K1_, K2_, K3_, K4_))

T3(R, A_, K, K1_, K2_, K3_, K4_) ==
    LET result == T3_raw(R, A_, K, K1_, K2_, K3_, K4_)
    IN  IF IsSignNegative(result) THEN Zero ELSE round(result)

T1_raw(T3_, P, LCF_, is_outside_city_limits) ==
    IF is_outside_city_limits
    THEN FSub(FAdd(T3_, FMul(Q(48, 100), T3_)), FMul(FromInt(P), LCF_))
    ELSE FSub(T3_, FMul(FromInt(P), LCF_))

\* mutant: the 48% surtax outside city limits left out
T1_surtax_ignored(T3_, P, LCF_, is_outside_city_limits) ==
    LET t1 == T1_raw(T3_, P, LCF_, FALSE)
    IN  IF IsSignNegative(t1) THEN Zero ELSE round(t1)

T1(T3_, P, LCF_, is_outside_city_limits) ==
    LET t1 == T1_raw(T3_, P, LCF_, is_outside_city_limits)
    IN  IF IsSignNegative(t1) THEN Zero ELSE round(t1)

T1_grad_raw(T3_, LCF_, is_outside_city_limits) ==
    IF is_outside_city_limits
    THEN FSub(FAdd(T3_, FMul(Q(48, 100), T3_)), LCF_)
    ELSE FSub(T3_, LCF_)

T1_grad(T3_, LCF_, is_outside_city_limits) ==
    LET t1 == T1_grad_raw(T3_, LCF_, is_outside_city_limits)
    IN  IF IsSignNegative(t1) THEN Zero ELSE round(t1)

\* mutant: the credit 0.15 * loss is returned below the cap
LCF_credit(acquisition_pay_loss) ==
    LET lcf == FMul(Q(15, 100), acquisition_pay_loss)
    IN  IF FGt(Q(750, 1), lcf) THEN round(lcf) ELSE Q(750, 1)

\* below the cap the loss itself is returned, not the credit lcf
LCF(acquisition_pay_loss) ==
    LET lcf == FMul(Q(15, 100), acquisition_pay_loss)
    IN  IF FGt(Q(750, 1), lcf) THEN round(acquisition_pay_loss) ELSE Q(750, 1)

\* 0.0495 / 0.0595
CppBaseRatio == FDiv(Q(495, 10000), Q(595, 10000))

\* the per-period EI is capped at the annual maximum; the CPP cap is applied
\* to the credit (already multiplied by 0.15); PM / 12 is an i64 division
K2(P, PM, C_, EI_) ==
    LET ei == IF FGt(EI_, EI_MAX_CONTRIBUTIONS) THEN EI_MAX_CONTRIBUTIONS ELSE EI_
        r0 == FMul(Q(15, 100), FMul(FMul(FromInt(P), C_), CppBaseRatio))
        r1 == IF FGt(r0, CPP_MAX_CONTRIBUTIONS) THEN CPP_MAX_CONTRIBUTIONS ELSE r0
        result == FAdd(FMul(r1, FromInt(TruncDiv(PM, 12))),
                       FMul(Q(15, 100), FMul(FromInt(P), ei)))
    IN  round(result)

---------------------------------------------------------------------------
(* provincial_income_tax/provincial_income_tax.rs *)

\* t4 = (V * A) - KP - K1P - K2P - K3P - K4P
T4_raw(V, A_, KP, K1P_, K2P_, K3P_, K4P_) ==
    FSub(FSub(FSub(FSub(FSub(FMul(V, A_), KP), K1P_), K2P_), K3P_), K4P_)

T4(V, A_, KP, K1P_, K2P_, K3P_, K4P_) ==
    LET t4 == T4_raw(V, A_, KP, K1P_, K2P_, K3P_, K4P_)
    IN  IF FLt(t4, Zero) THEN Zero ELSE round(t4)

\* t2 = T4 + V1 + V2 - S - (P as f64 * LCP)
T2_raw(T4_, V1_, V2_, S_, P, LCP) ==
    FSub(FSub(FAdd(FAdd(T4_, V1_), V2_), S_), FMul(FromInt(P), LCP))

T2(T4_, V1_, V2_, S_, P, LCP) ==
    LET t2 == T2_raw(T4_, V1_, V2_, S_, P, LCP)
    IN  IF FLt(t2, Zero) THEN Zero ELSE round(t2)

\* the annual CPP contribution and the annual EI premium are each capped
\* before the rate is applied; PM / 12 is an i64 division
K2P(lowest_provincial_tax_rate, P, PM, C_, EI_) ==
    LET cpp0 == FMul(FMul(FromInt(P), C_), CppBaseRatio)
        cpp == IF FGt(cpp0, CPP_MAX_CONTRIBUTIONS) THEN CPP_MAX_CONTRIBUTIONS ELSE cpp0
        k2p0 == FMul(lowest_provincial_tax_rate, FMul(cpp, FromInt(TruncDiv(PM, 12))))
        ei0 == FMul(FromInt(P), EI_)
        ei == IF FGt(ei0, EI_MAX_CONTRIBUTIONS) THEN EI_MAX_CONTRIBUTIONS ELSE ei0
    IN  round(FAdd(k2p0, FMul(lowest_provincial_tax_rate, ei)))

---------------------------------------------------------------------------
(* provincial_income_tax/ontario.rs *)

\* the middle bracket returns the surtax unrounded
V1(T4_) ==
    IF FLe(T4_, Q(5710, 1)) THEN Zero
    ELSE IF FGt(T4_, Q(5710, 1)) /\ FLt(T4_, Q(7307, 1))
    THEN FMul(Q(2, 10), FSub(T4_, Q(5710, 1)))
    ELSE round(FAdd(FMul(Q(2, 10), FSub(T4_, Q(5710, 1))),
                    FMul(Q(36, 100), FSub(T4_, Q(7307, 1)))))

\* `if v2 < cap { round(v2) } else { cap }`
V2_capped(v2, cap) == IF FLt(v2, cap) THEN round(v2) ELSE cap

\* every bracket is open at both ends, so the incomes 20000, 36000, 48000 and
\* 72000 fall through to the last branch; the fourth bracket subtracts 72000
V2(A_) ==
    IF FLt(A_, Q(20000, 1)) THEN Zero
    ELSE IF FGt(A_, Q(20000, 1)) /\ FLt(A_, Q(36000, 1))
    THEN V2_capped(FMul(Q(6, 100), FSub(A_, Q(20000, 1))), Q(300, 1))
    ELSE IF FGt(A_, Q(36000, 1)) /\ FLt(A_, Q(48000, 1))
    THEN V2_capped(FAdd(Q(300, 1), FMul(Q(6, 100), FSub(A_, Q(36000, 1)))), Q(450, 1))
    ELSE IF FGt(A_, Q(48000, 1)) /\ FLt(A_, Q(72000, 1))
    THEN V2_capped(FAdd(Q(600, 1), FMul(Q(25, 100), FSub(A_, Q(72000, 1)))), Q(750, 1))
    ELSE IF FGt(A_, Q(72000, 1)) /\ FLt(A_, Q(200000, 1))
    THEN V2_capped(FAdd(Q(600, 1), FMul(Q(25, 100), FSub(A_, Q(72000, 1)))), Q(900, 1))
    ELSE V2_capped(FAdd(Q(750, 1), FMul(Q(25, 100), FSub(A_, Q(200000, 1)))), Q(900, 1))

\* mutant: no clamp at zero in either branch
S_unclamped(T4_, V1_, Y_) ==
    LET s1 == FAdd(T4_, V1_)
        s2 == FSub(FAdd(FMul(Q(2, 1), Q(294, 1)), FromInt(Y_)), FAdd(T4_, V1_))
    IN  IF FLt(s1, s2) THEN s1 ELSE round(s2)

\* s1 is returned as it is, s2 is returned rounded
S(T4_, V1_, Y_) ==
    LET s1 == FAdd(T4_, V1_)
        s2 == FSub(FAdd(FMul(Q(2, 1), Q(294, 1)), FromInt(Y_)), FAdd(T4_, V1_))
    IN  IF FLt(s1, Zero) /\ FLt(s2, Zero) THEN Zero
        ELSE IF FLt(s1, s2)
             THEN (IF FLt(s1, Zero) THEN Zero ELSE s1)
             ELSE (IF FLt(s2, Zero) THEN Zero ELSE round(s2))

Y(number_of_disabled_dependants, number_if_minor_dependents) ==
    FAdd(FMul(Q(544, 1), FromInt(number_of_disabled_dependants)),
         FMul(Q(544, 1), FromInt(number_if_minor_dependents)))

---------------------------------------------------------------------------
(* Argument sets. *)

\* k * step dollars for k in 0..MaxSteps
Grid(step) == {Q(k * step, 1) : k \in 0..MaxSteps}

\* valid pay-period counts, and the counts with the invalid 0 and -1
Periods == 1..MaxP
Counts == -1..MaxP

Months == {0, 6, 11, 12}

\* requested extra deductions L: nothing, $20, and $20.004 (not whole cents)
Extras == {Zero, Q(20, 1), Q(20004, 1000)}

F64(x) == [kind |-> "f64", v |-> x]

BpafIncomes ==
    {Q(k * 75000, 1) : k \in 0..MaxSteps}
    \cup {Q(10000, 1), Q(17788199, 100), Q(177882, 1), Q(17788201, 100),
          Q(200000, 1), Q(21564850, 100), Q(25341399, 100), Q(253414, 1),
          Q(25341401, 100)}

BpafZoneDeductions == {Zero, Q(1, 100), Q(1000, 1)}

\* annualizing factors S1 of a valid year: total >= current >= 1
Factors == {S1(t, c).v : t \in Periods, c \in Periods}

T3Values ==
    {T3(r, a, k, k1, Zero, Zero, Zero) :
        r \in {Q(15, 100), Q(33, 100)}, a \in {Zero, Q(6000033, 100)},
        k \in {Zero, Q(40005, 10)}, k1 \in {Zero, Q(241935, 100)}}

T4Values ==
    {T4(v, a, kp, k1p, Zero, Zero, Zero) :
        v \in {Q(505, 10000)}, a \in {Zero, Q(6000033, 100)},
        kp \in {Zero, Q(15005, 10)}, k1p \in {Zero, Q(62620, 100)}}

T2Values ==
    {T2(t4, v1, Zero, s, p, Zero) :
        t4 \in T4Values, v1 \in {Zero}, s \in {Zero, Q(588, 1)}, p \in {1}}

T1gradValues ==
    {T1_grad(t3, lcf, o) : t3 \in T3Values \cup {Q(1010, 1)}, lcf \in {Zero, Q(750, 1)},
                           o \in {FALSE}}

\* pay-period counts of real payrolls next to the small ones
PayFrequencies == Periods \cup {12, 26}

\* acquisition losses around the point 0.15 * x = 750
Losses ==
    Grid(2000) \cup {Q(1, 100), Q(1234565, 1000), Q(499999, 100), Q(5000, 1),
                     Q(500001, 100)}

\* per-period CPP contributions and EI premiums
CppContributions == {Zero, Q(100, 1), Q(14280, 100), Q(2000, 1), CPP_MAX_CONTRIBUTIONS}
EiPremiums == {Zero, Q(4103, 100), Q(100, 1), Q(500, 1), EI_MAX_CONTRIBUTIONS, Q(2000, 1)}

\* annual taxable incomes on, next to and between the bracket ends of V2
V2Incomes ==
    Grid(50000)
    \cup {Q(1999999, 100), Q(20000, 1), Q(2000001, 100), Q(25000, 1), Q(30000, 1),
          Q(36000, 1), Q(40000, 1), Q(48000, 1), Q(60000, 1), Q(70000, 1),
          Q(72000, 1), Q(72700, 1), Q(73300, 1), Q(20060001, 100)}

\* annual basic provincial taxes on both sides of the surtax thresholds
S_T4Values ==
    Grid(147) \cup {Q(29403, 100), Q(5710, 1), Q(580003, 100), Q(6000, 1),
                    Q(7307, 1), Q(8000, 1)}

\* Y of 0, 1, 10, 12, 13 and 22 dependants, `as i64`
YValues == {Y(d, m)[1] : d \in {0, 1, 10}, m \in {0, 12}}

---------------------------------------------------------------------------
(* The caller. *)

Init ==
    /\ pc = "idle"
    /\ op = "none"
    /\ args = <<>>
    /\ res = <<>>

CallBPAF ==
    /\ pc = "idle"
    /\ \E a \in BpafIncomes, hd \in BpafZoneDeductions :
        /\ pc' = "returned"
        /\ op' = "BPAF"
        /\ args' = [A |-> a, HD |-> hd]
        /\ res' = BPAF(a, hd)

CallA ==
    /\ pc = "idle"
    /\ \E p \in Periods, i \in Grid(650) \cup {Q(2500505, 1000)}, f \in {Zero, Q(1200, 1)},
          f2 \in {Zero, Q(50, 1)}, f5a \in {Zero, Q(1025, 100)}, u1 \in {Q(25, 1)},
          hd \in {Zero, Q(1000, 1)}, f1 \in {Zero, Q(500, 1)},
          t \in {Zero, Q(32145, 100)}, l \in {Zero, Q(20, 1)} :
        LET r == A(p, i, f, f2, f5a, u1, hd, f1, t, l)
        IN  /\ pc' = "returned"
            /\ op' = "A"
            /\ args' = [P |-> p, I |-> i, F |-> f, F2 |-> f2, F5A |-> f5a, U1 |-> u1, HD |-> hd, F1 |-> f1, T |-> t, L |-> l]
            /\ res' = [kind |-> "pair", a |-> r[1], T |-> r[2]]

CallA_grad ==
    /\ pc = "idle"
    /\ \E s1 \in Factors, i \in Grid(650), f \in {Zero, Q(1200, 1)},
          f1 \in {Zero, Q(500, 1)}, f2 \in {Zero}, f4 \in {Zero, Q(300, 1)},
          f5a \in {Zero, Q(1025, 100)}, f5b \in {Zero}, u1 \in {Q(25, 1)},
          b1 \in {Zero, Q(1000005, 1000)}, hd \in {Zero, Q(1000, 1)} :
        /\ pc' = "returned"
        /\ op' = "A_grad"
        /\ args' = [S1 |-> s1, I |-> i, F |-> f, F1 |-> f1, F2 |-> f2, F4 |-> f4, F5A |-> f5a, F5B |-> f5b, U1 |-> u1, B1 |-> b1, HD |-> hd]
        /\ res' = F64(A_grad(s1, i, f, f1, f2, f4, f5a, f5b, u1, b1, hd))

CallS1 ==
    /\ pc = "idle"
    /\ \E t \in Periods \cup {26, 52}, c \in Counts \cup {26, 27} :
        /\ pc' = "returned"
        /\ op' = "S1"
        /\ args' = [total_pay_periods |-> t, current_pay_period |-> c]
        /\ res' = S1(t, c)

CallT ==
    /\ pc = "idle"
    /\ \E p \in Counts, t3 \in T3Values, lcf \in {Zero, Q(750, 1)}, o \in BOOLEAN,
          t2 \in T2Values, l \in Extras :
        LET t1 == T1(t3, p, lcf, o)
        IN  /\ pc' = "returned"
            /\ op' = "T"
            /\ args' = [T1 |-> t1, T2 |-> t2, P |-> p, L |-> l]
            /\ res' = F64(T(t1, t2, p, l))

CallT_grad ==
    /\ pc = "idle"
    /\ \E t1 \in T1gradValues, t2 \in T2Values, m1 \in {Zero, Q(500, 1)},
          s1 \in Factors, m \in {Zero, Q(1000, 1), Q(20000, 1)}, l \in Extras :
        /\ pc' = "returned"
        /\ op' = "T_grad"
        /\ args' = [T1_grad |-> t1, T2 |-> t2, M1 |-> m1, S1 |-> s1, M |-> m, L |-> l]
        /\ res' = F64(T_grad(t1, t2, m1, s1, m, l))

CallC ==
    /\ pc = "idle"
    /\ \E pm \in Months, d \in {Zero, Q(100, 1), Q(4000, 1), Q(403410, 100), Q(5000, 1)},
          pi \in Grid(1500) \cup {Q(100025, 100), Q(80000, 1)}, p \in Counts :
        /\ pc' = "returned"
        /\ op' = "C"
        /\ args' = [PM |-> pm, D |-> d, PI |-> pi, P |-> p]
        /\ res' = F64(C(pm, d, pi, p))

CallC2 ==
    /\ pc = "idle"
    /\ \E pm \in Months, d2 \in {Zero, Q(100, 1), Q(396, 1), Q(400, 1)},
          ytd \in {Zero, Q(70000, 1), Q(71300, 1), Q(80000, 1)}, pi \in Grid(1500),
          w \in {Q(71300, 1), Q(80000, 1)} :
        /\ pc' = "returned"
        /\ op' = "C2"
        /\ args' = [PM |-> pm, D2 |-> d2, PI_YTD |-> ytd, PI |-> pi, W |-> w]
        /\ res' = F64(C2(pm, d2, ytd, pi, w))

CallEI ==
    /\ pc = "idle"
    /\ \E d1 \in {Zero, Q(500, 1), Q(1070, 1), Q(107748, 100), Q(1100, 1)},
          ie \in Grid(1500) \cup {Q(100025, 100)} :
        /\ pc' = "returned"
        /\ op' = "EI"
        /\ args' = [D1 |-> d1, IE |-> ie]
        /\ res' = F64(EI(d1, ie))

CallF1 ==
    /\ pc = "idle"
    /\ \E p \in Counts, pr \in Counts, f1 \in {Zero, Q(500, 1), Q(100001, 100)} :
        /\ pc' = "returned"
        /\ op' = "F1"
        /\ args' = [P |-> p, PR |-> pr, F1 |-> f1]
        /\ res' = F64(F1(p, pr, f1))

CallF5A ==
    /\ pc = "idle"
    /\ \E f5 \in {Zero, Q(1005, 10)}, pi \in Grid(1500), b \in {Zero, Q(500, 1)} :
        /\ pc' = "returned"
        /\ op' = "F5A"
        /\ args' = [F5 |-> f5, PI |-> pi, B |-> b]
        /\ res' = F64(F5A(f5, pi, b))

CallK3 ==
    /\ pc = "idle"
    /\ \E p \in Counts, pr \in Counts, k3 \in {Zero, Q(500, 1), Q(100001, 100)} :
        /\ pc' = "returned"
        /\ op' = "K3"
        /\ args' = [P |-> p, PR |-> pr, K3 |-> k3]
        /\ res' = F64(K3(p, pr, k3))

CallT3 ==
    /\ pc = "idle"
    /\ \E r \in {Q(15, 100), Q(205, 1000), Q(33, 100)},
          a \in Grid(30000) \cup {Q(1000505, 1000)}, k \in {Zero, Q(40005, 10)},
          k1 \in {Zero, Q(241935, 100)}, k2 \in {Zero, Q(800005, 1000)},
          k3 \in {Zero, Q(100, 1)}, k4 \in {Zero, Q(22095, 100)} :
        /\ pc' = "returned"
        /\ op' = "T3"
        /\ args' = [R |-> r, A |-> a, K |-> k, K1 |-> k1, K2 |-> k2, K3 |-> k3, K4 |-> k4]
        /\ res' = F64(T3(r, a, k, k1, k2, k3, k4))

CallT1 ==
    /\ pc = "idle"
    /\ \E t3 \in T3Values \cup {Q(1000505, 1000)}, p \in Periods,
          lcf \in {Zero, Q(750, 1), Q(4000, 1)}, o \in BOOLEAN :
        /\ pc' = "returned"
        /\ op' = "T1"
        /\ args' = [T3 |-> t3, P |-> p, LCF |-> lcf, is_outside_city_limits |-> o]
        /\ res' = F64(T1(t3, p, lcf, o))

CallT1_grad ==
    /\ pc = "idle"
    /\ \E t3 \in T3Values \cup {Q(1000505, 1000)},
          lcf \in {Zero, Q(750, 1), Q(4000, 1)}, o \in BOOLEAN :
        /\ pc' = "returned"
        /\ op' = "T1_grad"
        /\ args' = [T3 |-> t3, LCF |-> lcf, is_outside_city_limits |-> o]
        /\ res' = F64(T1_grad(t3, lcf, o))

CallT4 ==
    /\ pc = "idle"
    /\ \E v \in {Q(505, 10000), Q(915, 10000)},
          a \in Grid(30000) \cup {Q(1000505, 1000)}, kp \in {Zero, Q(15005, 10)},
          k1p \in {Zero, Q(62620, 100)}, k2p \in {Zero, Q(250005, 1000)},
          k3p \in {Zero, Q(100, 1)}, k4p \in {Zero} :
        /\ pc' = "returned"
        /\ op' = "T4"
        /\ args' = [V |-> v, A |-> a, KP |-> kp, K1P |-> k1p, K2P |-> k2p, K3P |-> k3p, K4P |-> k4p]
        /\ res' = F64(T4(v, a, kp, k1p, k2p, k3p, k4p))

CallT2 ==
    /\ pc = "idle"
    /\ \E t4 \in T4Values \cup {Q(1000505, 1000)}, v1 \in {Zero, Q(3184, 10)},
          v2 \in {Zero, Q(450, 1)}, s \in {Zero, Q(588, 1)}, p \in Periods,
          lcp \in {Zero, Q(250, 1)} :
        /\ pc' = "returned"
        /\ op' = "T2"
        /\ args' = [T4 |-> t4, V1 |-> v1, V2 |-> v2, S |-> s, P |-> p, LCP |-> lcp]
        /\ res' = F64(T2(t4, v1, v2, s, p, lcp))

\* the first pay period of a year with no history, computed both ways:
\* T(T1(..), T2, P, L) and T_grad(T1_grad(..), T2, 0, S1(P, 1), 0, L), LCF = 0
CallBothModes ==
    /\ pc = "idle"
    /\ \E t3 \in T3Values \cup {Q(1000505, 1000)}, t2 \in T2Values,
          p \in PayFrequencies, l \in Extras, o \in BOOLEAN :
        /\ pc' = "returned"
        /\ op' = "BothModes"
        /\ args' = [T3 |-> t3, T2 |-> t2, P |-> p, L |-> l, is_outside_city_limits |-> o]
        /\ res' = [kind |-> "modes",
                   periodic |-> T(T1(t3, p, Zero, o), t2, p, l),
                   cumulative |-> T_grad(T1_grad(t3, Zero, o), t2, Zero,
                                         S1(p, 1).v, Zero, l)]

CallLCF ==
    /\ pc = "idle"
    /\ \E x \in Losses :
        /\ pc' = "returned"
        /\ op' = "LCF"
        /\ args' = [acquisition_pay_loss |-> x]
        /\ res' = F64(LCF(x))

CallK2 ==
    /\ pc = "idle"
    /\ \E p \in PayFrequencies, pm \in Months, c \in CppContributions, ei \in EiPremiums :
        /\ pc' = "returned"
        /\ op' = "K2"
        /\ args' = [P |-> p, PM |-> pm, C |-> c, EI |-> ei]
        /\ res' = F64(K2(p, pm, c, ei))

CallK2P ==
    /\ pc = "idle"
    /\ \E r \in {Q(15, 100), Q(505, 10000)}, p \in PayFrequencies, pm \in Months,
          c \in CppContributions, ei \in EiPremiums :
        /\ pc' = "returned"
        /\ op' = "K2P"
        /\ args' = [lowest_provincial_tax_rate |-> r, P |-> p, PM |-> pm, C |-> c, EI |-> ei]
        /\ res' = F64(K2P(r, p, pm, c, ei))

CallV1 ==
    /\ pc = "idle"
    /\ \E t4 \in S_T4Values :
        /\ pc' = "returned"
        /\ op' = "V1"
        /\ args' = [T4 |-> t4]
        /\ res' = F64(V1(t4))

CallV2 ==
    /\ pc = "idle"
    /\ \E a \in V2Incomes :
        /\ pc' = "returned"
        /\ op' = "V2"
        /\ args' = [A |-> a]
        /\ res' = F64(V2(a))

\* V1 is 0, the surtax V1(T4) of the same T4, or $100
CallS ==
    /\ pc = "idle"
    /\ \E t4 \in S_T4Values, y \in YValues :
        \E v1 \in {Zero, V1(t4), Q(100, 1)} :
            /\ pc' = "returned"
            /\ op' = "S"
            /\ args' = [T4 |-> t4, V1 |-> v1, Y |-> y]
            /\ res' = F64(S(t4, v1, y))

CallY ==
    /\ pc = "idle"
    /\ \E d \in 0..MaxP, m \in 0..MaxP :
        /\ pc' = "returned"
        /\ op' = "Y"
        /\ args' = [number_of_disabled_dependants |-> d, number_if_minor_dependents |-> m]
        /\ res' = F64(Y(d, m))

\* the result is consumed; no formula retains state between calls
Return ==
    /\ pc = "returned"
    /\ pc' = "idle"
    /\ op' = "none"
    /\ args' = <<>>
    /\ res' = <<>>

Next ==
    \/ CallBPAF
    \/ CallA
    \/ CallA_grad
    \/ CallS1
    \/ CallT
    \/ CallT_grad
    \/ CallC
    \/ CallC2
    \/ CallEI
    \/ CallF1
    \/ CallF5A
    \/ CallK3
    \/ CallT3
    \/ CallT1
    \/ CallT1_grad
    \/ CallT4
    \/ CallT2
    \/ CallBothModes
    \/ CallLCF
    \/ CallK2
    \/ CallK2P
    \/ CallV1
    \/ CallV2
    \/ CallS
    \/ CallY
    \/ Return

Spec == Init /\ [][Next]_vars

---------------------------------------------------------------------------
(* The claims. *)

Ok(dollars) == [kind |-> "Ok", v |-> Wide(dollars, 0)]

NetIncome == FAdd(args.A, args.HD)

\* C1: BPAF returns Ok(16129.0) whenever NI = A + HD <= 177882, and
\* Ok(14538.0) whenever NI > INCOME_THRESHOLD_5.
C1_FlatBranches ==
    op = "BPAF" =>
        /\ FLe(NetIncome, FromInt(177882)) => res = Ok(16129)
        /\ FGt(NetIncome, FromInt(INCOME_THRESHOLD_5)) => res = Ok(14538)

C1_Witness ==
    /\ op = "BPAF"
    /\ args.A = Q(25341401, 100)
    /\ args.HD = Zero
    /\ res = Ok(14538)

\* round(MINIMUM_BASIC_AMT - (NI - INCOME_THRESHOLD_4) * 1591/75532), the
\* interpolation the claim C2 states
BPAF_band_linear(NI) ==
    LET m == MulDivMod(Cents(NI) - 100 * INCOME_THRESHOLD_4, 1591, 75532)
        c == 100 * MINIMUM_BASIC_AMT - m[1] - (IF 2 * m[2] > 75532 THEN 1 ELSE 0)
    IN  Wide(c \div 100, c % 100)

InBand(NI) ==
    FLt(FromInt(INCOME_THRESHOLD_4), NI) /\ FLt(NI, FromInt(INCOME_THRESHOLD_5))

\* C2: inside the interpolation band BPAF equals
\* round(MINIMUM_BASIC_AMT - (NI - INCOME_THRESHOLD_4) * 1591/75532), stays
\* between 14538.0 and 16129.0, and no larger net income on which BPAF
\* succeeds gets a larger result.
C2_BandLinearMonotone ==
    (op = "BPAF" /\ InBand(NetIncome)) =>
        /\ res.kind = "Ok"
        /\ res.v = BPAF_band_linear(NetIncome)
        /\ WideLe(Wide(14538, 0), res.v)
        /\ WideLe(res.v, Wide(16129, 0))
        /\ \A a \in BpafIncomes, hd \in BpafZoneDeductions :
               (FLe(NetIncome, FAdd(a, hd)) /\ BPAF(a, hd).kind = "Ok")
                   => WideLe(BPAF(a, hd).v, res.v)

\* C3: BPAF returns Err exactly when NI = A + HD equals INCOME_THRESHOLD_5,
\* Ok with a value for every other NI, and the same outcome when the call is
\* repeated with the same arguments.
C3_ErrIffThreshold5 ==
    op = "BPAF" =>
        /\ res.kind = "Err" <=> NetIncome = FromInt(INCOME_THRESHOLD_5)
        /\ res.kind # "Err" => (res.kind = "Ok" /\ res.v # Wide(0, 0))
        /\ BPAF(args.A, args.HD) = res

C3_Witness ==
    /\ op = "BPAF"
    /\ args.A = Q(25341399, 100)
    /\ args.HD = Q(1, 100)
    /\ res.kind = "Err"

\* (R * A) - K - K1 - K2 - K3 - K4 of the call in progress
C4_raw ==
    FSub(FSub(FSub(FSub(FSub(FMul(args.R, args.A), args.K), args.K1), args.K2),
              args.K3), args.K4)

\* C4: with a pay-period count P >= 1 and non-negative arguments, each of
\* T3, T4, T1, T1_grad, T2 and the per-period tax T computed from them is
\* >= 0; a negative raw result is returned as 0.
C4_Saturating ==
    /\ op \in {"T3", "T4", "T1", "T1_grad", "T2"} => FGe(res.v, Zero)
    /\ (op = "T" /\ args.P >= 1) => FGe(res.v, Zero)
    /\ (op = "T3" /\ FLt(C4_raw, Zero)) => res.v = Zero

C4_Witness ==
    /\ op = "T3"
    /\ args.A = Q(30000, 1)
    /\ FLt(C4_raw, Zero)
    /\ res.v = Zero

\* the annual CPP maximum prorated by months, 4034.1 * (PM / 12)
C5_ProratedCap == FMul(Q(40341, 10), Q(args.PM, 12))

\* C5: with P >= 1 and a year-to-date contribution D within the prorated
\* cap, D + C(PM, D, PI, P) never exceeds the prorated annual maximum
\* 4034.1 * (PM / 12).
C5_CapIsCeiling ==
    (op = "C" /\ args.P >= 1 /\ FLe(args.D, C5_ProratedCap))
        => FLe(FAdd(args.D, res.v), C5_ProratedCap)

\* C6: for non-negative arguments (P >= 1) each of C, C2 and EI returns a
\* value >= 0.
C6_NonNegative ==
    ((op = "C" /\ args.P >= 1) \/ op \in {"C2", "EI"}) => FGe(res.v, Zero)

\* (T1_grad + T2 - M1)/S1 - M of the call in progress
C7_t == FSub(FDiv(FSub(FAdd(args.T1_grad, args.T2), args.M1), args.S1), args.M)

FMax(x, y) == IF FLt(x, y) THEN y ELSE x

\* C7 as stated: for S1 > 0, T_grad = round(max(L, (T1_grad + T2 - M1)/S1 - M) + L).
C7_SpecFormula ==
    (op = "T_grad" /\ FGt(args.S1, Zero))
        => res.v = round(FAdd(FMax(args.L, C7_t), args.L))

\* C7 amended: for S1 > 0, T_grad is L itself when (T1_grad + T2 - M1)/S1 - M
\* is negative, and round((T1_grad + T2 - M1)/S1 - M + L) otherwise.
C7_Amended ==
    (op = "T_grad" /\ FGt(args.S1, Zero))
        => res.v = (IF FLt(C7_t, Zero) THEN args.L ELSE round(FAdd(C7_t, args.L)))

C7_Witness ==
    /\ op = "T_grad"
    /\ FLt(Zero, C7_t)
    /\ FLt(C7_t, args.L)
    /\ res.v = round(FAdd(C7_t, args.L))

\* C8: for S1 > 0 and L >= 0 a whole number of cents, T_grad >= L, also when
\* (T1_grad + T2 - M1)/S1 - M is zero or negative.
C8_AtLeastL ==
    (op = "T_grad" /\ FGt(args.S1, Zero) /\ FGe(args.L, Zero) /\ round(args.L) = args.L)
        => FGe(res.v, args.L)

C8_Witness ==
    /\ op = "T_grad"
    /\ FLt(C7_t, Zero)
    /\ args.L = Q(20, 1)
    /\ res.v = args.L

\* the caller broke a precondition of the formula it called
C9_PreconditionViolated ==
    \/ op \in {"F1", "K3"} /\ (args.P <= 0 \/ args.PR <= 0)
    \/ op \in {"T", "C"} /\ args.P <= 0
    \/ op = "F5A" /\ args.PI = Zero
    \/ op = "S1" /\ args.current_pay_period = 0

\* C9: a zero or negative pay-period count (F1, K3, T, C), zero pensionable
\* earnings (F5A) or current_pay_period = 0 (S1) is reported as a
\* precondition error: never a NaN or Infinity result, never a panic.
C9_PreconditionError ==
    C9_PreconditionViolated => res.kind = "PreconditionError"

\* P * (I - F - F2 - F5A - U1) - HD - F1 of the call in progress
C10_income ==
    FSub(FSub(FMul(FromInt(args.P),
                   FSub(FSub(FSub(FSub(args.I, args.F), args.F2), args.F5A), args.U1)),
              args.HD), args.F1)

\* (S1 * (I - F - F2 - F5A - U1)) + (B1 - F4 - F5B) - HD - F1 of the call
C10_income_grad ==
    FSub(FSub(FAdd(FMul(args.S1,
                        FSub(FSub(FSub(FSub(args.I, args.F), args.F2), args.F5A), args.U1)),
                   FSub(FSub(args.B1, args.F4), args.F5B)),
              args.HD), args.F1)

\* C10: A returns the rounded, unclamped income, with L as the tax when the
\* income is negative and the passed-in T when it is >= 0; A_grad is never
\* negative and is 0 whenever its raw result is negative.
C10_Asymmetry ==
    /\ op = "A" =>
        /\ res.a = round(C10_income)
        /\ res.T = (IF FLt(C10_income, Zero) THEN args.L ELSE args.T)
    /\ op = "A_grad" =>
        /\ FGe(res.v, Zero)
        /\ FLt(C10_income_grad, Zero) => res.v = Zero
        /\ FGe(C10_income_grad, Zero) => res.v = C10_income_grad

C10_Witness ==
    /\ op = "A"
    /\ FLt(C10_income, Zero)
    /\ FLt(res.a, Zero)
    /\ args.T # args.L
    /\ res.T = args.L

\* C11: in the first pay period of a year with no year-to-date history
\* (M = M1 = 0, LCF = 0, S1(P, 1) = P) the cumulative T_grad(T1_grad(T3, 0, f),
\* T2, 0, S1(P, 1), 0, L) equals the periodic T(T1(T3, P, 0, f), T2, P, L).
C11_ModesAgree ==
    op = "BothModes" => res.cumulative = res.periodic

C11_Witness ==
    /\ op = "BothModes"
    /\ args.P = 26
    /\ args.is_outside_city_limits
    /\ FGt(args.T3, Zero)
    /\ FGt(args.T2, Zero)
    /\ args.L = Q(20, 1)
    /\ res.cumulative = res.periodic
    /\ FGt(res.periodic, args.L)

\* C12: LCF(x) is round(x) for 0 <= x < 5000 (0.15 * x < 750) and exactly 750
\* for x >= 5000.
C12_LossBelowCap ==
    op = "LCF" =>
        /\ FLt(args.acquisition_pay_loss, Q(5000, 1))
              => res.v = round(args.acquisition_pay_loss)
        /\ FGe(args.acquisition_pay_loss, Q(5000, 1)) => res.v = Q(750, 1)

C12_Witness ==
    /\ op = "LCF"
    /\ args.acquisition_pay_loss = Q(4000, 1)
    /\ res.v = Q(4000, 1)

\* C13: for every A >= 0, the bracket ends included, 0 <= V2(A) <= 900, with
\* V2 = 0 for A <= 20000, V2 <= 300 up to 36000, <= 450 up to 48000, <= 750
\* up to 72000 and <= 900 above.
C13_BracketCaps ==
    op = "V2" =>
        /\ FGe(res.v, Zero)
        /\ FLe(res.v, Q(900, 1))
        /\ FLe(args.A, Q(20000, 1)) => res.v = Zero
        /\ FLe(args.A, Q(36000, 1)) => FLe(res.v, Q(300, 1))
        /\ FLe(args.A, Q(48000, 1)) => FLe(res.v, Q(450, 1))
        /\ FLe(args.A, Q(72000, 1)) => FLe(res.v, Q(750, 1))

\* PM / 12 as a real quotient, the reading that gives the larger ceiling
C14_months == FDiv(FromInt(args.PM), Q(12, 1))

\* C14: in K2 the EI part is at most 0.15 * EI_MAX_CONTRIBUTIONS and the CPP
\* part at most 0.15 * CPP_MAX_CONTRIBUTIONS * (PM / 12), so that
\* K2 <= round(0.15 * (CPP_MAX_CONTRIBUTIONS * (PM / 12) + EI_MAX_CONTRIBUTIONS)).
\* With C = 0 the result is the EI part, with EI = 0 it is the CPP part.
C14_CreditCeiling ==
    op = "K2" =>
        /\ args.C = Zero
              => FLe(res.v, round(FMul(Q(15, 100), Q(107748, 100))))
        /\ args.EI = Zero
              => FLe(res.v, round(FMul(Q(15, 100), FMul(Q(403410, 100), C14_months))))
        /\ FLe(res.v, round(FMul(Q(15, 100),
                                 FAdd(FMul(Q(403410, 100), C14_months),
                                      Q(107748, 100)))))

\* C15: K2P(0.15, P, PM, C, EI) = K2(P, PM, C, EI) for every P >= 1, PM >= 0,
\* C >= 0, EI >= 0.
C15_SameCredit ==
    /\ op = "K2" => res.v = K2P(Q(15, 100), args.P, args.PM, args.C, args.EI)
    /\ (op = "K2P" /\ args.lowest_provincial_tax_rate = Q(15, 100))
          => res.v = K2(args.P, args.PM, args.C, args.EI)

\* T4 + V1 and 2 * 294 + Y - (T4 + V1) of the call
C16_s1 == FAdd(args.T4, args.V1)

C16_s2 == FSub(FromInt(588 + args.Y), FAdd(args.T4, args.V1))

FMin(x, y) == IF FLt(y, x) THEN y ELSE x

\* C16 as stated: S = max(0, min(T4 + V1, 2 * 294 + Y - (T4 + V1))), hence
\* 0 <= S <= T4 + V1.
C16_ExactMinMax ==
    op = "S" =>
        /\ res.v = FMax(Zero, FMin(C16_s1, C16_s2))
        /\ FGe(res.v, Zero)
        /\ FLe(res.v, C16_s1)

\* C16 amended: S is T4 + V1 as it is when that is the smaller value and
\* otherwise max(0, 2 * 294 + Y - (T4 + V1)) rounded to the cent; this is
\* the stated max(0, min(..)) whenever T4 + V1 is a whole number of cents,
\* and in every case 0 <= S <= T4 + V1.
C16_Amended ==
    op = "S" =>
        /\ res.v = (IF FLt(C16_s1, C16_s2) THEN C16_s1
                    ELSE round(FMax(Zero, C16_s2)))
        /\ round(C16_s1) = C16_s1 => res.v = FMax(Zero, FMin(C16_s1, C16_s2))
        /\ FGe(res.v, Zero)
        /\ FLe(res.v, C16_s1)

C16_Witness ==
    /\ op = "S"
    /\ FLe(C16_s2, C16_s1)
    /\ FGt(C16_s2, Zero)
    /\ round(C16_s2) # C16_s2
    /\ res.v = round(C16_s2)

===========================================================================
